---- MODULE Spec2Model ----
(***************************************************************************)
(* Model of the MassiveStarSuite backend prediction pipeline:              *)
(*   backend/modules/resolve_source.py  resolve, _check_quality            *)
(*   backend/modules/download_data.py   pull_data                          *)
(*   backend/main.py                    predict_by_id,                     *)
(*                                      predict_by_coordinates, _clean_temp*)
(*                                                                         *)
(* Strings are sequences of one-character strings.  Catalog numbers are    *)
(* fixed-point integers in tenths (ruwe 1.4 is 14, a probability 0.5 is 5, *)
(* parallax_over_error 3 is 30); a nullable number is <<>> (NaN) or <<n>>. *)
(***************************************************************************)
EXTENDS Integers, Sequences, FiniteSets, TLC

VARIABLES
    gRows,      \* Quality Gate harness: the DataFrame handed to _check_quality
    gOut,       \* Quality Gate harness: what _check_quality did with it
    rArgs,      \* Resolver harness: the arguments of one resolve() call
    rOut,       \* Resolver harness: the outcome of that call
    kKey,       \* Data Fetcher harness: a product key of the datalink dict
    kOut,       \* Data Fetcher harness: the file name derived from that key
    inv,        \* per request: the handler's position, locals and response
    fsDirs,     \* file system: the directories that exist
    fsFiles     \* file system: the files that exist

vars == <<gRows, gOut, rArgs, rOut, kKey, kOut, inv, fsDirs, fsFiles>>

(***************************************************************************)
(* Bounds                                                                  *)
(***************************************************************************)
MaxRows == 2        \* rows in a catalog answer handed to the Quality Gate
MaxIdLen == 4       \* characters in an identifier string
NInv == 2           \* pipeline invocations (requests)

(***************************************************************************)
(* Numbers as pandas sees them                                             *)
(***************************************************************************)
NaN == <<>>
Num(n) == <<n>>
IsNull(x) == x = NaN
\* comparisons with NaN are False
GT(x, c) == x # NaN /\ x[1] > c
LE(x, c) == x # NaN /\ x[1] <= c
GE(x, c) == x # NaN /\ x[1] >= c

\* thresholds of _check_quality, in tenths
RuweMax == 14
PoeMin == 30
ProbMin == 5

(***************************************************************************)
(* Exceptions: [exc, msg]; msg is the pieces of str(e)                     *)
(***************************************************************************)
NoExc == [exc |-> "none", msg |-> <<>>]
Raise(kind, msg) == [exc |-> kind, msg |-> msg]

AstroMsg == "The source has poor parameters, it might not be properly resolved."
ClassMsg == "The source is most likely a galaxy or quasar."
NoDataMsg == "The source has no BP-RP spectrum data in Gaia Data Release 3!"

\* str.join: the items with the separator between neighbours
RECURSIVE Join(_, _)
Join(items, sep) ==
    IF Len(items) = 0 THEN <<>>
    ELSE IF Len(items) = 1 THEN <<items[1]>>
    ELSE <<items[1], sep>> \o Join(Tail(items), sep)

(***************************************************************************)
(* Quality Gate: resolve_source.py _check_quality                          *)
(***************************************************************************)
\* (column <op> c).any() is \E r \in Rows(results)
Rows(results) == {results[k] : k \in 1..Len(results)}

\* variant of AstrometricIssue: parallax_over_error < 3 instead of <= 3
AstrometricIssueNoPoe(results) ==
    \/ \E r \in Rows(results) : GT(r.ruwe, RuweMax)
    \/ \E r \in Rows(results) : IsNull(r.parallax)
    \/ \E r \in Rows(results) : ~IsNull(r.parallax_over_error)
                                     /\ r.parallax_over_error[1] < PoeMin

\* line 186
AstrometricIssue(results) ==
    \/ \E r \in Rows(results) : GT(r.ruwe, RuweMax)
    \/ \E r \in Rows(results) : IsNull(r.parallax)
    \/ \E r \in Rows(results) : LE(r.parallax_over_error, PoeMin)

\* variant of GalaxyQuasarIssue: a low combmod star probability counts too
GalaxyQuasarIssueWithStar(results) ==
    \/ \E r \in Rows(results) : GE(r.classprob_dsc_combmod_galaxy, ProbMin)
    \/ \E r \in Rows(results) : GE(r.classprob_dsc_combmod_quasar, ProbMin)
    \/ \E r \in Rows(results) : GE(r.classprob_dsc_allosmod_galaxy, ProbMin)
    \/ \E r \in Rows(results) : GE(r.classprob_dsc_allosmod_quasar, ProbMin)
    \/ \E r \in Rows(results) : ~IsNull(r.classprob_dsc_combmod_star)
                                     /\ r.classprob_dsc_combmod_star[1] < ProbMin

\* line 205 (the star_probs list of lines 190-202 is never read)
GalaxyQuasarIssue(results) ==
    \/ \E r \in Rows(results) : GE(r.classprob_dsc_combmod_galaxy, ProbMin)
    \/ \E r \in Rows(results) : GE(r.classprob_dsc_combmod_quasar, ProbMin)
    \/ \E r \in Rows(results) : GE(r.classprob_dsc_allosmod_galaxy, ProbMin)
    \/ \E r \in Rows(results) : GE(r.classprob_dsc_allosmod_quasar, ProbMin)

\* variant of Issues: the classification message appended first
IssuesClassFirst(results) ==
    (IF GalaxyQuasarIssue(results) THEN <<ClassMsg>> ELSE <<>>)
    \o (IF AstrometricIssue(results) THEN <<AstroMsg>> ELSE <<>>)

\* lines 183-206: the issues list, in append order
Issues(results) ==
    (IF AstrometricIssue(results) THEN <<AstroMsg>> ELSE <<>>)
    \o (IF GalaxyQuasarIssue(results) THEN <<ClassMsg>> ELSE <<>>)

\* line 209
MissingSpectrum(results) == \E r \in Rows(results) : r.has_xp_sampled # TRUE

\* variant of check_quality: the issues list tested before has_xp_sampled
check_qualitySoftFirst(results) ==
    IF Issues(results) # <<>>
        THEN Raise("PoorSourceQualityError", Join(Issues(results), "; "))
    ELSE IF MissingSpectrum(results)
        THEN Raise("NoDataError", <<NoDataMsg>>)
    ELSE NoExc

\* lines 167-218
check_quality(results) ==
    IF MissingSpectrum(results)
        THEN Raise("NoDataError", <<NoDataMsg>>)
    ELSE IF Issues(results) # <<>>
        THEN Raise("PoorSourceQualityError", Join(Issues(results), "; "))
    ELSE NoExc

(***************************************************************************)
(* Catalog rows                                                            *)
(***************************************************************************)
\* the columns of the joined query (resolve_source.py lines 102-113) that the
\* pipeline reads; the binarystar and allosmod_star columns are selected but
\* never read and are left out
Row(sid, ra, dec, plx, poe, ruwe, xp, cstar, sstar, cgal, cqso, agal, aqso, sgq) ==
    [ source_id |-> sid, ra |-> ra, dec |-> dec,
      parallax |-> plx, parallax_over_error |-> poe, ruwe |-> ruwe,
      has_xp_sampled |-> xp,
      classprob_dsc_combmod_star |-> cstar,
      classprob_dsc_specmod_star |-> sstar,
      classprob_dsc_combmod_galaxy |-> cgal,
      classprob_dsc_combmod_quasar |-> cqso,
      classprob_dsc_allosmod_galaxy |-> agal,
      classprob_dsc_allosmod_quasar |-> aqso,
      classprob_dsc_specmod_galaxy |-> sgq,
      classprob_dsc_specmod_quasar |-> sgq ]

\* a source every check passes: ruwe 1.0, parallax 2.5, parallax_over_error 15
GoodRow(sid) ==
    Row(sid, sid, sid, Num(25), Num(150), Num(10), TRUE,
        Num(10), Num(10), Num(0), Num(0), Num(0), Num(0), Num(0))
BadRuweRow(sid) == [GoodRow(sid) EXCEPT !.ruwe = Num(15)]
NoSpectrumRow(sid) == [GoodRow(sid) EXCEPT !.has_xp_sampled = FALSE]
GalaxyRow(sid) == [GoodRow(sid) EXCEPT !.classprob_dsc_combmod_galaxy = Num(9),
                                       !.classprob_dsc_combmod_star = Num(1)]
NotableRows(sid) == {GoodRow(sid), BadRuweRow(sid), NoSpectrumRow(sid), GalaxyRow(sid)}

\* single rows around every threshold the gate reads
GateRows ==
    { Row(<<"1">>, <<"1">>, <<"1">>, plx, poe, ruwe, xp, cstar, sstar, cgal, cqso, agal, aqso, sgq) :
        plx \in {NaN, Num(25)}, poe \in {NaN, Num(30), Num(31)},
        ruwe \in {Num(14), Num(15)}, xp \in BOOLEAN,
        cstar \in {Num(4), Num(9)}, sstar \in {Num(4), Num(9)},
        cgal \in {Num(0), Num(5)}, cqso \in {Num(0), Num(5)},
        agal \in {Num(4), Num(5)}, aqso \in {Num(0), Num(5)},
        sgq \in {Num(0), Num(9)} }

RECURSIVE ExtraRows(_)
ExtraRows(n) ==
    IF n = 0 THEN {<<>>}
    ELSE ExtraRows(n - 1)
         \cup {<<r>> \o t : r \in NotableRows(<<"1">>),
                            t \in {x \in ExtraRows(n - 1) : Len(x) = n - 1}}

\* DataFrames of 1..MaxRows rows: any first row, notable later rows
GateInputs == {<<r>> \o t : r \in GateRows, t \in ExtraRows(MaxRows - 1)}

NotCalled == [exc |-> "notcalled", msg |-> <<>>]

(***************************************************************************)
(* Python values and strings                                               *)
(***************************************************************************)
\* an argument: None, a str (v its characters) or a float (v = <<number>>)
None == [t |-> "none", v |-> <<>>]
Str(s) == [t |-> "str", v |-> s]
Flt(n) == [t |-> "float", v |-> <<n>>]

\* bool(x) of an argument
Truthy(a) ==
    \/ a.t = "str" /\ Len(a.v) > 0
    \/ a.t = "float" /\ a.v[1] # 0

Digit == {"0", "1", "2", "3", "4", "5", "6", "7", "8", "9"}

\* str.isdigit
isdigit(s) == Len(s) > 0 /\ \A k \in 1..Len(s) : s[k] \in Digit

\* s.replace(ch, '', 1): the first occurrence of ch removed
RECURSIVE ReplaceFirst(_, _)
ReplaceFirst(s, ch) ==
    IF Len(s) = 0 THEN <<>>
    ELSE IF s[1] = ch THEN Tail(s)
    ELSE <<s[1]>> \o ReplaceFirst(Tail(s), ch)

\* re.findall(r'\d+', s): the maximal digit runs, left to right.  cur is the
\* run being read, acc the runs completed so far.
RECURSIVE FindRuns(_, _, _)
FindRuns(s, cur, acc) ==
    IF Len(s) = 0 THEN (IF Len(cur) > 0 THEN Append(acc, cur) ELSE acc)
    ELSE IF s[1] \in Digit THEN FindRuns(Tail(s), Append(cur, s[1]), acc)
    ELSE FindRuns(Tail(s), <<>>, IF Len(cur) > 0 THEN Append(acc, cur) ELSE acc)

findall(s) == FindRuns(s, <<>>, <<>>)

\* variant of MaxByLen: the last item of greatest length
RECURSIVE MaxByLenLastFrom(_, _)
MaxByLenLastFrom(items, best) ==
    IF Len(items) = 0 THEN best
    ELSE MaxByLenLastFrom(Tail(items),
            IF best = <<>> \/ Len(items[1]) >= Len(best[1]) THEN <<items[1]>> ELSE best)
MaxByLenLast(items) == MaxByLenLastFrom(items, <<>>)

\* max(items, key=len, default=None): the first item of greatest length;
\* <<>> is None, <<x>> is x
RECURSIVE MaxByLenFrom(_, _)
MaxByLenFrom(items, best) ==
    IF Len(items) = 0 THEN best
    ELSE MaxByLenFrom(Tail(items),
            IF best = <<>> \/ Len(items[1]) > Len(best[1]) THEN <<items[1]>> ELSE best)
MaxByLen(items) == MaxByLenFrom(items, <<>>)

(***************************************************************************)
(* Resolver: resolve_source.py resolve                                     *)
(***************************************************************************)
EitherMsg == "Either 'id' or 'coords' (ra, dec) must be provided!"
InvalidIdMsg == "Invalid ID: No numeric values found."
NumericMsg == "RA and DEC must be numeric strings."
NoSourcesMsg == "No sources found!"
RemoteMsg == "remote service failure"
NoReplaceMsg == "object has no attribute 'replace'"

\* What the catalog answers to one query: it raises, or returns rows.
\* A cone answer lists the matching sources; a job answer lists row shapes.
Sources == {<<"1">>, <<"2">>}
ConeAnswers ==
    {[raises |-> TRUE, rows |-> <<>>], [raises |-> FALSE, rows |-> <<>>]}
    \cup {[raises |-> FALSE, rows |-> <<s>>] : s \in Sources}
JobShapes == {<<>>, <<"good">>, <<"badruwe">>, <<"nospectrum">>, <<"galaxy">>,
              <<"good", "nospectrum">>}
JobAnswers ==
    {[raises |-> TRUE, rows |-> <<>>]}
    \cup {[raises |-> FALSE, rows |-> sh] : sh \in JobShapes}

MakeRow(shape, sid) ==
    CASE shape = "good" -> GoodRow(sid)
      [] shape = "badruwe" -> BadRuweRow(sid)
      [] shape = "nospectrum" -> NoSpectrumRow(sid)
      [] shape = "galaxy" -> GalaxyRow(sid)

\* one entry of the log of catalog calls
Query(kind, on, answer) ==
    [kind |-> kind, on |-> on,
     answer |-> IF answer.raises THEN "raise"
                ELSE IF Len(answer.rows) = 0 THEN "empty" ELSE "rows"]

\* an outcome of resolve: the exception (or none), the DataFrame returned,
\* the catalog calls made, and whether _check_quality was called
Outcome(e, results, queries, gated) ==
    [exc |-> e.exc, msg |-> e.msg, results |-> results, queries |-> queries,
     gated |-> gated]

\* variant of Branch: the coordinates tested before the identifier
BranchCoordsFirst(id, ra, dec) ==
    IF Truthy(ra) /\ Truthy(dec) THEN "coords"
    ELSE IF Truthy(id) THEN "id"
    ELSE "neither"

\* variant of Branch: elif ra or dec
BranchEitherCoord(id, ra, dec) ==
    IF Truthy(id) THEN "id"
    ELSE IF Truthy(ra) \/ Truthy(dec) THEN "coords"
    ELSE "neither"

\* lines 97, 114, 143: if id / elif ra and dec / else
Branch(id, ra, dec) ==
    IF Truthy(id) THEN "id"
    ELSE IF Truthy(ra) /\ Truthy(dec) THEN "coords"
    ELSE "neither"

\* lines 98-101: the numeric identifier, <<>> when there is none
NumericId(s) == IF isdigit(s) THEN <<s>> ELSE MaxByLen(findall(s))

\* line 115: ra.replace('.', '', 1).isdigit() and dec.replace('.', '', 1).isdigit()
\* "attr" when .replace is looked up on something that is not a str
NumericStrings(ra, dec) ==
    IF ra.t # "str" THEN "attr"
    ELSE IF ~isdigit(ReplaceFirst(ra.v, ".")) THEN "no"
    ELSE IF dec.t # "str" THEN "attr"
    ELSE IF ~isdigit(ReplaceFirst(dec.v, ".")) THEN "no"
    ELSE "yes"

\* variant of RunJob: the emptiness test of lines 150-152 is skipped
RunJobNoEmptyCheck(kind, sid, before, job) ==
    LET log == Append(before, Query(kind, sid, job))
        rows == [k \in 1..Len(job.rows) |-> MakeRow(job.rows[k], sid)]
    IN  IF job.raises
            THEN Outcome(Raise("RemoteError", <<RemoteMsg>>), <<>>, log, FALSE)
        ELSE IF check_quality(rows).exc # "none"
            THEN Outcome(check_quality(rows), <<>>, log, TRUE)
        ELSE Outcome(NoExc, rows, log, TRUE)

\* lines 146-157: run the joined query, reject an empty answer, gate the rows
RunJob(kind, sid, before, job) ==
    LET log == Append(before, Query(kind, sid, job))
        rows == [k \in 1..Len(job.rows) |-> MakeRow(job.rows[k], sid)]
    IN  IF job.raises
            THEN Outcome(Raise("RemoteError", <<RemoteMsg>>), <<>>, log, FALSE)
        ELSE IF Len(rows) = 0
            THEN Outcome(Raise("NoSourceFoundError", <<NoSourcesMsg>>), <<>>, log, FALSE)
        ELSE IF check_quality(rows).exc # "none"
            THEN Outcome(check_quality(rows), <<>>, log, TRUE)
        ELSE Outcome(NoExc, rows, log, TRUE)

\* variant of ConeSearch: no inner except, what the cone search raises and
\* the NoSourceFoundError of line 123 leave resolve as they are
ConeSearchNoCatch(ra, dec, cone, job) ==
    LET log == <<Query("cone", <<ra, dec>>, cone)>>
    IN  IF cone.raises
            THEN Outcome(Raise("RemoteError", <<RemoteMsg>>), <<>>, log, FALSE)
        ELSE IF Len(cone.rows) = 0
            THEN Outcome(Raise("NoSourceFoundError", <<NoSourcesMsg>>), <<>>, log, FALSE)
        ELSE RunJob("job_by_radec", cone.rows[1], log, job)

\* lines 117-142: the cone search; whatever is raised inside the inner try,
\* the NoSourceFoundError of line 123 included, leaves it as ValueError
ConeSearch(ra, dec, cone, job) ==
    LET log == <<Query("cone", <<ra, dec>>, cone)>>
    IN  IF cone.raises \/ Len(cone.rows) = 0
            THEN Outcome(Raise("ValueError", <<EitherMsg>>), <<>>, log, FALSE)
        ELSE RunJob("job_by_radec", cone.rows[1], log, job)

\* lines 74-161.  cone and job are the catalog's answers to the cone search
\* and to the joined query, should they be asked.
resolve(id, ra, dec, cone, job) ==
    CASE Branch(id, ra, dec) = "id" ->
            IF NumericId(id.v) = <<>>
                THEN Outcome(Raise("ValueError", <<InvalidIdMsg>>), <<>>, <<>>, FALSE)
            ELSE RunJob("job_by_id", NumericId(id.v)[1], <<>>, job)
      [] Branch(id, ra, dec) = "coords" ->
            IF NumericStrings(ra, dec) = "attr"
                THEN Outcome(Raise("AttributeError", <<NoReplaceMsg>>), <<>>, <<>>, FALSE)
            ELSE IF NumericStrings(ra, dec) = "no"
                THEN Outcome(Raise("ValueError", <<NumericMsg>>), <<>>, <<>>, FALSE)
            ELSE ConeSearch(ra, dec, cone, job)
      [] OTHER -> Outcome(Raise("ValueError", <<EitherMsg>>), <<>>, <<>>, FALSE)

\* argument values of the harness
IdChars == {"1", "2", "G"}
RECURSIVE StringsUpTo(_, _)
StringsUpTo(chars, n) ==
    IF n = 0 THEN {<<>>}
    ELSE StringsUpTo(chars, n - 1)
         \cup {Append(t, c) : c \in chars,
                              t \in {x \in StringsUpTo(chars, n - 1) : Len(x) = n - 1}}
IdArgs == {None} \cup {Str(s) : s \in StringsUpTo(IdChars, MaxIdLen)}
CoordArgs == {None, Str(<<>>), Str(<<"1", ".", "5">>), Str(<<"-", "1">>), Flt(2), Flt(0)}
ResolveArgs ==
    {[id |-> i, ra |-> r, dec |-> d] : i \in IdArgs, r \in CoordArgs, d \in CoordArgs}

(***************************************************************************)
(* Data Fetcher: download_data.py pull_data                                *)
(***************************************************************************)
DownloadMsg == "Failed to download data: "
WriteMsg == "write failure"

\* variant of DataDir: one staging directory per source
DataDirPerSource(results) == <<".", "temp">> \o results[1].source_id

\* line 81: data_dir = './temp', the same path for every call
DataDir(results) == <<".", "temp">>

\* A product key is a string; "XP_SAMPLED", "Gaia", "DR3" and ".csv" stand
\* for those substrings, which hold none of the characters that
\* replace('.xml', ''), replace(' ', '_') and replace('-', '_') look for
\* next to each other.
XpKey(sid) == <<"XP_SAMPLED", "-", "Gaia", " ", "DR3", " ">> \o sid \o <<".csv">>
XpXmlKey(sid) == <<"XP_SAMPLED", "-", "Gaia", " ", "DR3", " ">> \o sid
                    \o <<".", "x", "m", "l">>

\* s.replace(old, ''): every non-overlapping occurrence, left to right
RECURSIVE RemoveAll(_, _)
RemoveAll(s, old) ==
    IF Len(s) < Len(old) THEN s
    ELSE IF SubSeq(s, 1, Len(old)) = old
        THEN RemoveAll(SubSeq(s, Len(old) + 1, Len(s)), old)
    ELSE <<s[1]>> \o RemoveAll(Tail(s), old)

\* variant of ReplaceChar: s.replace(a, b, 1), the first occurrence only
ReplaceCharOnce(s, a, b) ==
    [k \in 1..Len(s) |->
        IF s[k] = a /\ (\A j \in 1..(k - 1) : s[j] # a) THEN b ELSE s[k]]

\* s.replace(a, b) for single characters
ReplaceChar(s, a, b) == [k \in 1..Len(s) |-> IF s[k] = a THEN b ELSE s[k]]

\* line 90: dl_key.replace('.xml', '').replace(' ','_').replace('-','_')
sanitize(key) ==
    ReplaceChar(ReplaceChar(RemoveAll(key, <<".", "x", "m", "l">>), " ", "_"), "-", "_")

\* the harness has not derived a file name yet
NotDerived == <<>>

\* what Gaia.load_data answers (line 72): it raises, or a dict of products
LinkAnswers(sid) ==
    {[raises |-> TRUE, keys |-> <<>>], [raises |-> FALSE, keys |-> <<>>],
     [raises |-> FALSE, keys |-> <<XpKey(sid)>>],
     [raises |-> FALSE, keys |-> <<XpXmlKey(sid)>>]}

\* line 86: the keys written, in dict order
Wanted(keys) == SelectSeq(keys, LAMBDA k : "XP_SAMPLED" \in {k[n] : n \in 1..Len(k)})

\* variant of DownloadFailure: the cause is dropped from the message
DownloadFailureNoCause(cause) == Raise("DataDownloadError", <<DownloadMsg>>)

\* lines 98-101: raise DataDownloadError(f"Failed to download data: {str(e)}")
DownloadFailure(cause) == Raise("DataDownloadError", <<DownloadMsg>> \o cause.msg)

\* a staged file: where it is, and whose spectrum which call wrote into it
File(dir, name, src, writer) == [dir |-> dir, name |-> name, src |-> src, writer |-> writer]

\* line 93: product.write(..., overwrite=True) for the first n wanted keys
WriteFiles(files, dir, keys, n, src, writer) ==
    LET names == {sanitize(Wanted(keys)[k]) : k \in 1..n}
    IN  {f \in files : ~(f.dir = dir /\ f.name \in names)}
        \cup {File(dir, nm, src, writer) : nm \in names}

(***************************************************************************)
(* Orchestrator: main.py predict_by_id, predict_by_coordinates             *)
(***************************************************************************)
NoResponse ==
    [status |-> 0, error |-> "none", detail |-> <<>>, prediction |-> <<>>, radec |-> <<>>]

\* variant of Ok200: the body carries the prediction alone on both routes
Ok200NoRadec(route, pred, results) ==
    [status |-> 200, error |-> "none", detail |-> <<>>, prediction |-> <<pred>>,
     radec |-> <<>>]

\* lines 189-193 and 257: the success body; ra and dec only on the id route
Ok200(route, pred, results) ==
    [status |-> 200, error |-> "none", detail |-> <<>>, prediction |-> <<pred>>,
     radec |-> IF route = "id" THEN <<results[1].ra, results[1].dec>> ELSE <<>>]

\* variant of ErrorResponse: an exception no clause names is dropped and
\* the handler answers as if it had succeeded
ErrorResponseSwallowing(e) ==
    IF e.exc \in {"NoSourceFoundError", "PoorSourceQualityError", "NoDataError"}
        THEN [status |-> 400, error |-> e.exc, detail |-> e.msg,
              prediction |-> <<>>, radec |-> <<>>]
    ELSE IF e.exc \in {"DataDownloadError", "InferenceError"}
        THEN [status |-> 500, error |-> e.exc, detail |-> e.msg,
              prediction |-> <<>>, radec |-> <<>>]
    ELSE [status |-> 200, error |-> "none", detail |-> <<>>,
          prediction |-> <<>>, radec |-> <<>>]

\* lines 194-214 and 258-278: the except clauses of the handlers
ErrorResponse(e) ==
    IF e.exc \in {"NoSourceFoundError", "PoorSourceQualityError", "NoDataError"}
        THEN [status |-> 400, error |-> e.exc, detail |-> e.msg,
              prediction |-> <<>>, radec |-> <<>>]
    ELSE IF e.exc \in {"DataDownloadError", "InferenceError"}
        THEN [status |-> 500, error |-> e.exc, detail |-> e.msg,
              prediction |-> <<>>, radec |-> <<>>]
    ELSE [status |-> 500, error |-> "UnexpectedError", detail |-> e.msg,
          prediction |-> <<>>, radec |-> <<>>]

Invs == 1..NInv
NoDir == <<>>
NoData == [src |-> <<>>, writer |-> 0]

\* One request.  pc is the handler's position; route, results, data_dir, X
\* and prediction are its locals; response is what it returned.  created, cleaned and lost
\* record what happened: pull_data made the staging directory for this
\* request, the number of _clean_temp calls it made, and whether another
\* request's cleanup deleted its staged file before it was read; raised is
\* the exception its try block caught, trace the stages it has called, in
\* order, queries the catalog calls of its resolve, and fault what went
\* wrong inside pull_data (the service call or a write).
IdleInv ==
    [pc |-> "start", route |-> "none", results |-> <<>>, data_dir |-> NoDir,
     X |-> NoData, prediction |-> <<>>, response |-> NoResponse,
     created |-> FALSE, cleaned |-> 0, lost |-> FALSE,
     raised |-> "none", trace |-> <<>>, queries |-> <<>>, fault |-> "none"]

\* the requests the two endpoints accept: {source_id: str}, {ra: float, dec: float}
IdRequests == {Str(<<"1">>), Str(<<"G", "2">>), Str(<<"G">>)}
CoordRequests == {<<Flt(2), Flt(-3)>>, <<Flt(0), Flt(2)>>}
PipelineJobAnswers ==
    {[raises |-> TRUE, rows |-> <<>>]}
    \cup {[raises |-> FALSE, rows |-> sh] : sh \in {<<>>, <<"good">>, <<"badruwe">>}}

Fail(r, e) ==
    [r EXCEPT !.pc = "done", !.raised = e.exc, !.response = ErrorResponse(e)]

\* variant of AfterResolve: a source the gate rejected is fetched all the same
AfterResolveIgnoringGate(r, route, out) ==
    LET called == [r EXCEPT !.route = route, !.queries = out.queries,
                            !.trace = <<"resolve">>
                                      \o (IF out.gated THEN <<"gate">> ELSE <<>>)]
    IN  IF out.exc \in {"none", "PoorSourceQualityError"}
            THEN [called EXCEPT !.pc = "resolved", !.results = out.results]
        ELSE Fail(called, out)

\* lines 165 and 233: results = resolve(...)
AfterResolve(r, route, out) ==
    LET called == [r EXCEPT !.route = route, !.queries = out.queries,
                            !.trace = <<"resolve">>
                                      \o (IF out.gated THEN <<"gate">> ELSE <<>>)]
    IN  IF out.exc = "none"
            THEN [called EXCEPT !.pc = "resolved", !.results = out.results]
        ELSE Fail(called, out)

HandlerResolve(i) ==
    /\ inv[i].pc = "start"
    /\ \E cone \in ConeAnswers, job \in PipelineJobAnswers :
        \/ \E id \in IdRequests :
              inv' = [inv EXCEPT ![i] =
                        AfterResolve(@, "id", resolve(id, None, None, cone, job))]
        \/ \E c \in CoordRequests :
              inv' = [inv EXCEPT ![i] =
                        AfterResolve(@, "coords", resolve(None, c[1], c[2], cone, job))]
    /\ UNCHANGED <<gRows, gOut, rArgs, rOut, kKey, kOut, fsDirs, fsFiles>>

\* lines 169 and 237: data_dir = pull_data(results)  (download_data.py 61-101)
HandlerPullData(i) ==
    /\ inv[i].pc = "resolved"
    /\ LET results == inv[i].results
           sid == IF Len(results) > 0 THEN results[1].source_id ELSE <<>>
           dir == DataDir(results)
           called == [inv[i] EXCEPT !.trace = Append(@, "fetch")]
       IN  \E link \in LinkAnswers(sid) :
            \/ \* Gaia.load_data raises: nothing was created
               /\ link.raises
               /\ inv' = [inv EXCEPT ![i] =
                    Fail([called EXCEPT !.fault = "load"],
                         DownloadFailure(Raise("RemoteError", <<RemoteMsg>>)))]
               /\ UNCHANGED <<fsDirs, fsFiles>>
            \/ \* a product.write raises after n products were written
               /\ ~link.raises
               /\ \E n \in 0..(Len(Wanted(link.keys)) - 1) :
                    /\ fsDirs' = fsDirs \cup {dir}
                    /\ fsFiles' = WriteFiles(fsFiles, dir, link.keys, n, sid, i)
                    /\ inv' = [inv EXCEPT ![i] =
                         Fail([called EXCEPT !.created = TRUE, !.fault = "write"],
                              DownloadFailure(Raise("OSError", <<WriteMsg>>)))]
            \/ \* every wanted product was written
               /\ ~link.raises
               /\ fsDirs' = fsDirs \cup {dir}
               /\ fsFiles' = WriteFiles(fsFiles, dir, link.keys,
                                        Len(Wanted(link.keys)), sid, i)
               /\ inv' = [inv EXCEPT ![i] = [called EXCEPT !.pc = "fetched",
                                                           !.created = TRUE,
                                                           !.data_dir = dir]]
    /\ UNCHANGED <<gRows, gOut, rArgs, rOut, kKey, kOut>>

\* lines 174 and 242: glob.glob(f"{data_dir}/*.csv")
glob(dirs, files, dir) ==
    {f \in files : f.dir = dir /\ dir \in dirs /\ f.name[Len(f.name)] = ".csv"}

\* lines 173-176 and 241-244: the first listed csv file is read; the listing
\* order is the file system's
HandlerReadCsv(i) ==
    /\ inv[i].pc = "fetched"
    /\ LET csv_files == glob(fsDirs, fsFiles, inv[i].data_dir)
           called == [inv[i] EXCEPT !.trace = Append(@, "read")]
       IN  \/ /\ csv_files = {}
              /\ inv' = [inv EXCEPT ![i] =
                    Fail(called, Raise("IndexError", <<"list index out of range">>))]
           \/ \E f \in csv_files :
                \/ inv' = [inv EXCEPT ![i] =
                      [called EXCEPT !.pc = "read",
                                     !.X = [src |-> f.src, writer |-> f.writer]]]
                \/ inv' = [inv EXCEPT ![i] =
                      Fail(called, Raise("ParserError", <<"cannot read the staged file">>))]
    /\ UNCHANGED <<gRows, gOut, rArgs, rOut, kKey, kOut, fsDirs, fsFiles>>

\* lines 179-180 and 247-248: torch.jit.load, then inference (inference.py 55-103)
HandlerInference(i) ==
    /\ inv[i].pc = "read"
    /\ \/ inv' = [inv EXCEPT ![i] =
              Fail(@, Raise("RuntimeError", <<"cannot load the model">>))]
       \/ inv' = [inv EXCEPT ![i] =
              Fail([@ EXCEPT !.trace = Append(@, "infer")],
                   Raise("InferenceError", <<"Inference failed: ", "model failure">>))]
       \/ \E pred \in {0, 1} :
            inv' = [inv EXCEPT ![i] =
              [@ EXCEPT !.pc = "inferred", !.prediction = <<pred>>,
                        !.trace = Append(@, "infer")]]
    /\ UNCHANGED <<gRows, gOut, rArgs, rOut, kKey, kOut, fsDirs, fsFiles>>

OwnFilePresent(files, i) == \E f \in files : f.writer = i

\* lines 115-120: shutil.rmtree(data_dir); a failure is logged and swallowed
clean_temp_dirs(dirs, dir) == dirs \ {dir}
clean_temp_files(files, dir) == {f \in files : f.dir # dir}

\* lines 183-193 and 251-257: _clean_temp(data_dir), then the success body
HandlerCleanAndReturn(i) ==
    /\ inv[i].pc = "inferred"
    /\ fsDirs' = clean_temp_dirs(fsDirs, inv[i].data_dir)
    /\ fsFiles' = clean_temp_files(fsFiles, inv[i].data_dir)
    /\ inv' = [j \in Invs |->
                IF j = i
                    THEN [inv[i] EXCEPT
                            !.pc = "done", !.cleaned = @ + 1,
                            !.response = Ok200(inv[i].route, inv[i].prediction[1],
                                               inv[i].results)]
                ELSE IF /\ inv[j].pc = "fetched"
                        /\ OwnFilePresent(fsFiles, j)
                        /\ ~OwnFilePresent(fsFiles', j)
                    THEN [inv[j] EXCEPT !.lost = TRUE]
                ELSE inv[j]]
    /\ UNCHANGED <<gRows, gOut, rArgs, rOut, kKey, kOut>>

Init ==
    /\ inv = [i \in Invs |-> IdleInv]
    /\ fsDirs = {}
    /\ kKey = <<>>
    /\ kOut = NotDerived
    /\ fsFiles = {}
    /\ gRows = <<>>
    /\ gOut = NotCalled
    /\ rArgs = [id |-> None, ra |-> None, dec |-> None]
    /\ rOut = NotCalled

\* requests are served by concurrently running handlers that share the
\* working directory; a step is one stage of one handler
Step(i) ==
    \/ HandlerResolve(i)
    \/ HandlerPullData(i)
    \/ HandlerReadCsv(i)
    \/ HandlerInference(i)
    \/ HandlerCleanAndReturn(i)

Next == \E i \in Invs : Step(i)

Spec == Init /\ [][Next]_vars

\* Requests served one after another by a single worker: a handler takes a
\* step only while no other request is between its first stage and its
\* response.  The working directory outlives each request.
Alone(i) == \A j \in Invs \ {i} : inv[j].pc \in {"start", "done"}

NextSeq ==
    \E i \in Invs :
        \/ Alone(i) /\ HandlerResolve(i)
        \/ Alone(i) /\ HandlerPullData(i)
        \/ Alone(i) /\ HandlerReadCsv(i)
        \/ Alone(i) /\ HandlerInference(i)
        \/ Alone(i) /\ HandlerCleanAndReturn(i)

SpecSeq == Init /\ [][NextSeq]_vars

\* Every call a handler makes (catalog query, bulk data fetch, file read,
\* model evaluation, rmtree) returns or raises, so a handler that has a
\* next stage to run does run it.
FairSpec == Spec /\ \A i \in Invs : WF_vars(Step(i))

(***************************************************************************)
(* SpecGate: _check_quality applied to every DataFrame of GateInputs       *)
(***************************************************************************)
InitGate ==
    /\ gRows \in GateInputs
    /\ gOut = NotCalled
    /\ rArgs = [id |-> None, ra |-> None, dec |-> None]
    /\ rOut = NotCalled
    /\ inv = [i \in Invs |-> IdleInv]
    /\ fsDirs = {}
    /\ kKey = <<>>
    /\ kOut = NotDerived
    /\ fsFiles = {}

CallCheckQuality ==
    /\ gOut = NotCalled
    /\ gOut' = check_quality(gRows)
    /\ UNCHANGED <<gRows, rArgs, rOut, kKey, kOut, inv, fsDirs, fsFiles>>

NextGate == CallCheckQuality

SpecGate == InitGate /\ [][NextGate]_vars

(***************************************************************************)
(* SpecResolve: resolve called once on every argument triple               *)
(***************************************************************************)
InitResolve ==
    /\ rArgs \in ResolveArgs
    /\ rOut = NotCalled
    /\ gRows = <<>>
    /\ gOut = NotCalled
    /\ inv = [i \in Invs |-> IdleInv]
    /\ fsDirs = {}
    /\ kKey = <<>>
    /\ kOut = NotDerived
    /\ fsFiles = {}

CallResolve ==
    /\ rOut = NotCalled
    /\ \E cone \in ConeAnswers, job \in JobAnswers :
            rOut' = resolve(rArgs.id, rArgs.ra, rArgs.dec, cone, job)
    /\ UNCHANGED <<gRows, gOut, rArgs, kKey, kOut, inv, fsDirs, fsFiles>>

NextResolve == CallResolve

SpecResolve == InitResolve /\ [][NextResolve]_vars

(***************************************************************************)
(* SpecSanitize: the file name of line 90 derived once from every key      *)
(***************************************************************************)
MaxKeyLen == 8          \* characters in a key over the characters of '.xml'
MaxMixedKeyLen == 3     \* characters in a key over all the characters below
XmlChars == {".", "x", "m", "l"}
MixedChars == XmlChars \cup {" ", "-", "_"}
Keys ==
    UNION {[1..n -> XmlChars] : n \in 0..MaxKeyLen}
    \cup UNION {[1..n -> MixedChars] : n \in 0..MaxMixedKeyLen}
    \cup {XpKey(s) : s \in Sources} \cup {XpXmlKey(s) : s \in Sources}

InitSanitize ==
    /\ kKey \in Keys
    /\ kOut = NotDerived
    /\ gRows = <<>>
    /\ gOut = NotCalled
    /\ rArgs = [id |-> None, ra |-> None, dec |-> None]
    /\ rOut = NotCalled
    /\ inv = [i \in Invs |-> IdleInv]
    /\ fsDirs = {}
    /\ fsFiles = {}

CallSanitize ==
    /\ Len(kOut) = 0
    /\ kOut' = <<sanitize(kKey)>>
    /\ UNCHANGED <<gRows, gOut, rArgs, rOut, kKey, inv, fsDirs, fsFiles>>

NextSanitize == CallSanitize

SpecSanitize == InitSanitize /\ [][NextSanitize]_vars

(***************************************************************************)
(* Pipeline claims (checked under Spec)                                    *)
(***************************************************************************)
Returned(i) == inv[i].pc = "done"
FailedResponse(i) == Returned(i) /\ inv[i].response.status # 200

\* C1: whenever a handler has returned and its call of pull_data had created
\* the staging directory, that handler has run the cleanup exactly once.
C1_CleanupOnEveryExit ==
    \A i \in Invs : (Returned(i) /\ inv[i].created) => inv[i].cleaned = 1

\* C2: a cleanup that runs while another request is between its fetch and its
\* read deletes that request's staging directory and staged file, and a
\* request that lost its staged file this way ends in failure or goes on with
\* a file that another request wrote.
C2_CleanupRace ==
    /\ [][\A i, j \in Invs :
            ( /\ i # j
              /\ inv[j].pc = "inferred" /\ inv'[j].pc = "done"
              /\ inv[i].pc = "fetched" /\ inv[i].data_dir \in fsDirs )
            => /\ inv[i].data_dir \notin fsDirs'
               /\ ~OwnFilePresent(fsFiles', i)]_vars
    /\ [](\A i \in Invs :
            (inv[i].lost /\ inv[i].pc \in {"read", "inferred", "done"})
            => \/ FailedResponse(i)
               \/ inv[i].X.writer # i)

\* C2 witness: a request whose staged file was deleted by the other request's
\* cleanup before it read it, and which therefore answered with an error
C2_Witness ==
    \E i \in Invs :
        /\ inv[i].lost
        /\ Returned(i)
        /\ inv[i].created
        /\ inv[i].response.status = 500
        /\ inv[i].response.error = "UnexpectedError"

(***************************************************************************)
(* Quality Gate claims (checked under SpecGate)                            *)
(***************************************************************************)
Range(s) == {s[k] : k \in 1..Len(s)}
GateCalled == gOut # NotCalled
AllHaveSpectrum == \A k \in 1..Len(gRows) : gRows[k].has_xp_sampled = TRUE
\* the soft-issue conditions as the claims word them
SaidAstro == \E k \in 1..Len(gRows) :
    \/ gRows[k].ruwe # NaN /\ gRows[k].ruwe[1] > 14
    \/ gRows[k].parallax = NaN
    \/ gRows[k].parallax_over_error # NaN /\ gRows[k].parallax_over_error[1] <= 30
SaidGalaxyQuasar == \E k \in 1..Len(gRows) :
    \E p \in { gRows[k].classprob_dsc_combmod_galaxy,
               gRows[k].classprob_dsc_combmod_quasar,
               gRows[k].classprob_dsc_allosmod_galaxy,
               gRows[k].classprob_dsc_allosmod_quasar } : p # NaN /\ p[1] >= 5
SaidStarLow == \E k \in 1..Len(gRows) :
    \E p \in { gRows[k].classprob_dsc_combmod_star,
               gRows[k].classprob_dsc_specmod_star } : p # NaN /\ p[1] < 5
SaidAllGalaxyQuasarLow == \A k \in 1..Len(gRows) :
    \A p \in { gRows[k].classprob_dsc_combmod_galaxy,
               gRows[k].classprob_dsc_combmod_quasar,
               gRows[k].classprob_dsc_allosmod_galaxy,
               gRows[k].classprob_dsc_allosmod_quasar,
               gRows[k].classprob_dsc_specmod_galaxy,
               gRows[k].classprob_dsc_specmod_quasar } : p # NaN /\ p[1] < 5

\* C3: a resolved source with has_xp_sampled = false is always answered with
\* NoDataError, whatever its other attributes, and the NoData text carries
\* none of the soft-issue messages.
C3_NoDataDominates ==
    (GateCalled /\ gRows[1].has_xp_sampled = FALSE)
        => /\ gOut.exc = "NoDataError"
           /\ gOut.msg = <<NoDataMsg>>
           /\ AstroMsg \notin Range(gOut.msg)
           /\ ClassMsg \notin Range(gOut.msg)

\* C3 witness: no spectrum, and both soft issues were detected as well
C3_Witness ==
    /\ GateCalled
    /\ gRows[1].has_xp_sampled = FALSE
    /\ SaidAstro /\ SaidGalaxyQuasar
    /\ gOut.exc = "NoDataError"

\* C4: with spectrum present the gate raises PoorSourceQualityError exactly
\* when a soft issue was raised, its text being the raised messages joined by
\* "; ", astrometric first; with no soft issue it raises nothing.
C4_PoorQualityIffIssues ==
    (GateCalled /\ AllHaveSpectrum)
        => /\ (gOut.exc = "PoorSourceQualityError") <=> (SaidAstro \/ SaidGalaxyQuasar)
           /\ (SaidAstro /\ SaidGalaxyQuasar) => gOut.msg = <<AstroMsg, "; ", ClassMsg>>
           /\ (SaidAstro /\ ~SaidGalaxyQuasar) => gOut.msg = <<AstroMsg>>
           /\ (~SaidAstro /\ SaidGalaxyQuasar) => gOut.msg = <<ClassMsg>>
           /\ (~SaidAstro /\ ~SaidGalaxyQuasar) => gOut = NoExc

\* C4 witness: both issues raised and reported together
C4_Witness ==
    /\ GateCalled /\ AllHaveSpectrum
    /\ gOut = Raise("PoorSourceQualityError", <<AstroMsg, "; ", ClassMsg>>)

\* C5: the astrometric issue is raised iff ruwe > 1.4, or parallax is null,
\* or parallax_over_error <= 3; ruwe = 1.4 alone raises nothing,
\* parallax_over_error = 3 alone raises it, and ruwe = 1.5 alone gives
\* PoorSourceQualityError with the astrometric message.
C5_AstrometricIssue ==
    (GateCalled /\ AllHaveSpectrum)
        => /\ (AstroMsg \in Range(gOut.msg)) <=> SaidAstro
           /\ (Len(gRows) = 1 /\ gRows[1].parallax = Num(25))
                => /\ (gRows[1].ruwe = Num(14) /\ gRows[1].parallax_over_error = Num(31))
                        => AstroMsg \notin Range(gOut.msg)
                   /\ gRows[1].parallax_over_error = Num(30)
                        => AstroMsg \in Range(gOut.msg)
                   /\ (gRows[1].ruwe = Num(15) /\ gRows[1].parallax_over_error = Num(31)
                         /\ ~SaidGalaxyQuasar)
                        => gOut = Raise("PoorSourceQualityError", <<AstroMsg>>)

\* C5 witness: parallax_over_error exactly 3 with everything else passing
C5_Witness ==
    /\ GateCalled /\ AllHaveSpectrum
    /\ Len(gRows) = 1
    /\ gRows[1].ruwe = Num(14)
    /\ gRows[1].parallax = Num(25)
    /\ gRows[1].parallax_over_error = Num(30)
    /\ gOut = Raise("PoorSourceQualityError", <<AstroMsg>>)

\* C6 as claimed: a star probability below 0.5 under either methodology
\* raises the classification issue even when every galaxy and quasar
\* probability is below 0.5.
C6_StarLowRaisesIssue ==
    (GateCalled /\ AllHaveSpectrum /\ SaidStarLow /\ SaidAllGalaxyQuasarLow)
        => ClassMsg \in Range(gOut.msg)

\* C6 amended: the classification issue is raised iff one of the combmod or
\* allosmod galaxy/quasar probabilities is >= 0.5; the star probabilities and
\* the specmod galaxy/quasar probabilities are not consulted.
C6_GalaxyQuasarOnly ==
    (GateCalled /\ AllHaveSpectrum)
        => ((ClassMsg \in Range(gOut.msg)) <=> SaidGalaxyQuasar)

\* C6 witness: the issue raised for a source whose star probabilities are high
C6_Witness ==
    /\ GateCalled /\ AllHaveSpectrum
    /\ Len(gRows) = 1
    /\ ~SaidStarLow
    /\ SaidGalaxyQuasar
    /\ ClassMsg \in Range(gOut.msg)

(***************************************************************************)
(* Resolver claims (checked under SpecResolve)                             *)
(***************************************************************************)
ResolveCalled == rOut # NotCalled
\* an argument that was not given: None or the empty string
Absent(a) == a.t = "none" \/ (a.t = "str" /\ a.v = <<>>)
SaidNoId == Absent(rArgs.id)
SaidNoPair == Absent(rArgs.ra) \/ Absent(rArgs.dec)
SaidBothGiven == ~Absent(rArgs.id) /\ ~Absent(rArgs.ra) /\ ~Absent(rArgs.dec)
HasDigit(s) == \E k \in 1..Len(s) : s[k] \in Digit
AllDigits(s) == \A k \in 1..Len(s) : s[k] \in Digit
\* s[a..b] is a maximal run of digits of s
IsRunAt(s, a, b) ==
    /\ 1 <= a /\ a <= b /\ b <= Len(s)
    /\ \A k \in a..b : s[k] \in Digit
    /\ a = 1 \/ s[a - 1] \notin Digit
    /\ b = Len(s) \/ s[b + 1] \notin Digit
\* ... and no run is longer, and no run as long starts before it
IsLongestFirstRun(s, a, b) ==
    /\ IsRunAt(s, a, b)
    /\ \A a2 \in 1..Len(s), b2 \in 1..Len(s) :
          IsRunAt(s, a2, b2) => \/ b2 - a2 < b - a
                                \/ b2 - a2 = b - a /\ a2 >= a

\* C7: a call with neither an identifier nor a complete (ra, dec) pair raises
\* ValueError (InvalidRequest) and no catalog query has been issued.
C7_NeitherGivenIsInvalid ==
    (ResolveCalled /\ SaidNoId /\ SaidNoPair)
        => /\ rOut.exc = "ValueError"
           /\ rOut.queries = <<>>

\* C7 witness: only ra was given
C7_Witness ==
    /\ ResolveCalled
    /\ rArgs.id = None /\ rArgs.ra = Str(<<"1", ".", "5">>) /\ rArgs.dec = None
    /\ rOut.exc = "ValueError"

\* C8 as claimed: a call with both an identifier and an (ra, dec) pair raises
\* ValueError (InvalidRequest) instead of resolving by either.
C8_BothGivenIsInvalid ==
    (ResolveCalled /\ SaidBothGiven) => rOut.exc = "ValueError"

\* C8 amended: with both given the identifier wins and ra/dec are ignored: no
\* cone search is made, an identifier with a digit is looked up by its
\* digits, and the Resolver's own ValueError is raised only for an identifier
\* without any digit.
C8_IdentifierTakesPrecedence ==
    (ResolveCalled /\ SaidBothGiven)
        => /\ \A k \in 1..Len(rOut.queries) : rOut.queries[k].kind = "job_by_id"
           /\ HasDigit(rArgs.id.v)
                => /\ Len(rOut.queries) = 1
                   /\ rOut.exc # "ValueError"
                   /\ rOut.exc # "AttributeError"
           /\ ~HasDigit(rArgs.id.v)
                => /\ rOut.queries = <<>>
                   /\ rOut.exc = "ValueError"
                   /\ rOut.msg = <<InvalidIdMsg>>

\* C8 witness: both given, and the source was resolved by the identifier
C8_Witness ==
    /\ ResolveCalled /\ SaidBothGiven
    /\ rArgs.ra = Str(<<"1", ".", "5">>) /\ rArgs.dec = Str(<<"1", ".", "5">>)
    /\ rOut.exc = "none"
    /\ Len(rOut.results) > 0
    /\ rOut.queries[1].kind = "job_by_id"

\* C9: a non-empty identifier that is not all digits is looked up by its
\* longest maximal digit run, the first one among equals; without any digit
\* the call raises ValueError and issues no query; an all-digit identifier is
\* looked up unchanged.
C9_LongestDigitRun ==
    (ResolveCalled /\ rArgs.id.t = "str" /\ Len(rArgs.id.v) > 0)
        => LET s == rArgs.id.v
           IN  /\ AllDigits(s)
                    => /\ Len(rOut.queries) = 1
                       /\ rOut.queries[1].kind = "job_by_id"
                       /\ rOut.queries[1].on = s
               /\ (~AllDigits(s) /\ HasDigit(s))
                    => /\ Len(rOut.queries) = 1
                       /\ rOut.queries[1].kind = "job_by_id"
                       /\ \E a \in 1..Len(s), b \in 1..Len(s) :
                            /\ IsLongestFirstRun(s, a, b)
                            /\ rOut.queries[1].on = SubSeq(s, a, b)
               /\ ~HasDigit(s)
                    => /\ rOut.exc = "ValueError"
                       /\ rOut.queries = <<>>

\* C9 witness: two runs of the same length, the first one is used
C9_Witness ==
    /\ ResolveCalled
    /\ rArgs.id = Str(<<"2", "G", "1">>)
    /\ Len(rOut.queries) = 1
    /\ rOut.queries[1].on = <<"2">>

\* C10: when the cone search of a coordinate call finds nothing, resolve
\* raises NoSourceFoundError and no other kind of error.
C10_EmptyConeIsNoSourceFound ==
    (ResolveCalled /\ Len(rOut.queries) > 0
        /\ rOut.queries[1].kind = "cone" /\ rOut.queries[1].answer = "empty")
        => rOut.exc = "NoSourceFoundError"

\* ---------------------------------------------------------------------------
\* what a request's resolve asked the catalog

\* the joined query of request i was executed and answered with zero rows
JobCameBackEmpty(i) ==
    \E k \in 1..Len(inv[i].queries) :
        /\ inv[i].queries[k].kind \in {"job_by_id", "job_by_radec"}
        /\ inv[i].queries[k].answer = "empty"

Ran(i, stage) == \E k \in 1..Len(inv[i].trace) : inv[i].trace[k] = stage

\* C11: whenever the joined catalog query executes and returns zero rows,
\* resolve fails with NoSourceFoundError, and neither _check_quality nor
\* pull_data is called for that request.
C11_EmptyJobIsNoSourceFound ==
    \A i \in Invs :
        JobCameBackEmpty(i) =>
            /\ inv[i].raised = "NoSourceFoundError"
            /\ inv[i].response.error = "NoSourceFoundError"
            /\ inv[i].response.detail = <<NoSourcesMsg>>
            /\ ~Ran(i, "gate")
            /\ ~Ran(i, "fetch")
            /\ ~inv[i].created

C11_Witness ==
    \E i \in Invs :
        /\ JobCameBackEmpty(i)
        /\ Returned(i)
        /\ inv[i].trace = <<"resolve">>
        /\ inv[i].response.status = 400

\* ---------------------------------------------------------------------------
\* how failures are reported

\* the exception types that stand for the client-caused failure kinds:
\* ValueError is the Resolver's InvalidRequest
ClientCaused ==
    {"ValueError", "NoSourceFoundError", "PoorSourceQualityError", "NoDataError"}

\* C12: every pipeline failure is reported as {error, detail}; the
\* client-caused kinds (InvalidRequest, NoSourceFound, PoorQuality, NoData)
\* get a 4xx status and every other kind a 5xx status.  In particular a
\* ValueError raised by resolve is answered with a 4xx status.
C12_ClientErrorsAre4xx ==
    \A i \in Invs :
        (Returned(i) /\ inv[i].raised # "none") =>
            /\ inv[i].response.error # "none"
            /\ inv[i].response.detail # <<>>
            /\ inv[i].raised \in ClientCaused =>
                    inv[i].response.status \in 400..499
            /\ inv[i].raised \notin ClientCaused =>
                    inv[i].response.status \in 500..599

\* ---------------------------------------------------------------------------
\* the success response

\* request i came through resolve, pull_data, read_csv and inference
\* with no exception
Evaluated(i) ==
    /\ inv[i].pc \in {"inferred", "done"}
    /\ inv[i].prediction # <<>>

\* the source id the joined query of request i asked for
ResolvedId(i) == inv[i].queries[Len(inv[i].queries)].on

\* C13: an identifier request whose source resolves, passes the gate, has
\* its spectrum fetched and is evaluated without error is answered with
\* status 200 and a body holding the prediction and the ra and dec of the
\* resolved catalog row; nothing can fail after the evaluation.
C13_IdSuccessBody ==
    \A i \in Invs :
        (inv[i].route = "id" /\ Evaluated(i)) =>
            /\ inv[i].raised = "none"
            /\ inv[i].trace = <<"resolve", "gate", "fetch", "read", "infer">>
            /\ inv[i].results # <<>>
            /\ inv[i].results[1].source_id = ResolvedId(i)
            /\ Returned(i) =>
                /\ inv[i].response.status = 200
                /\ inv[i].response.prediction = inv[i].prediction
                /\ inv[i].response.radec =
                        <<GoodRow(ResolvedId(i)).ra, GoodRow(ResolvedId(i)).dec>>
                /\ inv[i].response.radec =
                        <<inv[i].results[1].ra, inv[i].results[1].dec>>

C13_Witness ==
    \E i \in Invs :
        /\ inv[i].route = "id"
        /\ Evaluated(i)
        /\ Returned(i)
        /\ inv[i].response.status = 200
        /\ inv[i].response.radec # <<>>

\* ---------------------------------------------------------------------------
\* the coordinate route

\* C14: the numeric ra and dec that predict_by_coordinates passes on are
\* accepted by resolve's coordinate validation, a negative declination and
\* a zero coordinate included, so the cone search is made for every
\* coordinate request, and a request whose source is found, passes the gate
\* and is evaluated is answered with status 200 and a prediction.
C14_CoordinatesAccepted ==
    \A i \in Invs :
        (inv[i].route = "coords" /\ Returned(i)) =>
            /\ inv[i].queries # <<>>
            /\ inv[i].queries[1].kind = "cone"
            /\ (\A k \in 1..Len(inv[i].queries) : inv[i].queries[k].answer = "rows")
                    => inv[i].raised \notin {"ValueError", "AttributeError"}
            /\ Evaluated(i) => /\ inv[i].response.status = 200
                               /\ inv[i].response.prediction # <<>>

\* ---------------------------------------------------------------------------
\* the staging file name

Derived == Len(kOut) = 1

\* s has '.xml' somewhere in it
HasXml(s) ==
    \E k \in 1..(Len(s) - 3) : SubSeq(s, k, k + 3) = <<".", "x", "m", "l">>

\* C15 as stated: the file name derivation is idempotent: for every product
\* key k, sanitize(sanitize(k)) = sanitize(k).
C15_SanitizeIdempotent == Derived => sanitize(kOut[1]) = kOut[1]

\* C15, corrected: deriving the name again from a derived name changes it
\* exactly when the derived name still holds '.xml' (removing one '.xml'
\* can bring the pieces of another together); a derived name never holds a
\* space or a hyphen, and the names of the keys the archive uses are stable.
C15_IdempotentUnlessXmlRemains ==
    Derived =>
        /\ (sanitize(kOut[1]) = kOut[1]) <=> ~HasXml(kOut[1])
        /\ \A k \in 1..Len(kOut[1]) : kOut[1][k] \notin {" ", "-"}
        /\ (\E s \in Sources : kKey \in {XpKey(s), XpXmlKey(s)})
                => sanitize(kOut[1]) = kOut[1]
        /\ ~HasXml(kKey) => sanitize(kOut[1]) = kOut[1]

C15_Witness ==
    /\ Derived
    /\ HasXml(kKey)
    /\ kOut[1] # kKey
    /\ sanitize(kOut[1]) = kOut[1]
    /\ \E k \in 1..Len(kKey) : kKey[k] \in {" ", "-"}

\* ---------------------------------------------------------------------------
\* the order of the stages

StageOrder == <<"resolve", "gate", "fetch", "read", "infer">>

IsPrefix(s, t) == Len(s) <= Len(t) /\ s = SubSeq(t, 1, Len(s))

\* C16: within one request the stages are called in the order resolve,
\* _check_quality, pull_data, read and inference, each at most once, and a
\* stage is called only when every earlier one succeeded: pull_data only
\* for a source that resolved and passed the gate, inference only with a
\* staged file that was fetched and read, and nothing after a failure.
C16_StagesInOrderOnce ==
    \A i \in Invs :
        /\ IsPrefix(inv[i].trace, StageOrder)
        /\ Ran(i, "gate") => inv[i].queries[Len(inv[i].queries)].answer = "rows"
        /\ Ran(i, "fetch") =>
                /\ inv[i].results # <<>>
                /\ check_quality(inv[i].results) = NoExc
                /\ inv[i].raised \notin {"ValueError", "AttributeError", "RemoteError",
                                         "NoSourceFoundError", "NoDataError",
                                         "PoorSourceQualityError"}
        /\ Ran(i, "read") =>
                /\ inv[i].created
                /\ inv[i].data_dir = DataDir(inv[i].results)
                /\ inv[i].raised # "DataDownloadError"
        /\ Ran(i, "infer") =>
                /\ inv[i].X # NoData
                /\ inv[i].raised \in {"none", "InferenceError"}
        /\ inv[i].raised # "none" => Returned(i)

C16_Witness ==
    \E i, j \in Invs :
        /\ Returned(i) /\ inv[i].trace = StageOrder /\ inv[i].raised = "none"
        /\ Returned(j) /\ inv[j].trace = <<"resolve", "gate">>
        /\ inv[j].raised = "PoorSourceQualityError"

\* ---------------------------------------------------------------------------
\* failures of pull_data

Holds(msg, text) == \E k \in 1..Len(msg) : msg[k] = text

\* C17: whenever Gaia.load_data raises or the write of a matching product
\* raises, pull_data fails with DataDownloadError and with no other type,
\* and the message of the DataDownloadError holds the text of the cause.
C17_DownloadErrorKeepsCause ==
    \A i \in Invs :
        /\ inv[i].fault # "none" =>
                /\ inv[i].raised = "DataDownloadError"
                /\ inv[i].response.error = "DataDownloadError"
                /\ inv[i].response.detail[1] = DownloadMsg
                /\ inv[i].fault = "load" => Holds(inv[i].response.detail, RemoteMsg)
                /\ inv[i].fault = "write" => Holds(inv[i].response.detail, WriteMsg)
                /\ inv[i].trace = <<"resolve", "gate", "fetch">>
        /\ inv[i].raised = "DataDownloadError" => inv[i].fault # "none"

C17_Witness ==
    \E i, j \in Invs :
        /\ Returned(i) /\ inv[i].fault = "load" /\ ~inv[i].created
        /\ Returned(j) /\ inv[j].fault = "write" /\ inv[j].created

\* ---------------------------------------------------------------------------
\* exceptions of the catalog client

\* the catalog raised in a call of the given kinds during this resolve
CatalogRaised(kinds) ==
    /\ ResolveCalled
    /\ \E k \in 1..Len(rOut.queries) :
            /\ rOut.queries[k].kind \in kinds
            /\ rOut.queries[k].answer = "raise"

\* C18 as stated: any exception the catalog client raises during
\* resolution, in the cone search or in the joined query, on either path,
\* leaves resolve as NoSourceFoundError or as ValueError (InvalidRequest),
\* never as another exception.
C18_CatalogErrorsClassified ==
    CatalogRaised({"cone", "job_by_id", "job_by_radec"}) =>
        rOut.exc \in {"NoSourceFoundError", "ValueError"}

\* C18, corrected: an exception of the cone search leaves resolve as
\* ValueError (InvalidRequest); an exception of the joined query, on either
\* path, leaves resolve unchanged, as the catalog client's own exception
\* with its own message, and is neither NoSourceFoundError nor ValueError.
C18_OnlyConeErrorsClassified ==
    /\ CatalogRaised({"cone"}) =>
            /\ rOut.exc = "ValueError"
            /\ rOut.msg = <<EitherMsg>>
            /\ Len(rOut.queries) = 1
    /\ CatalogRaised({"job_by_id", "job_by_radec"}) =>
            /\ rOut.exc = "RemoteError"
            /\ rOut.msg = <<RemoteMsg>>
            /\ ~rOut.gated
            /\ rOut.results = <<>>

C18_Witness ==
    /\ CatalogRaised({"job_by_radec"})
    /\ Len(rOut.queries) = 2
    /\ rOut.queries[1].answer = "rows"
    /\ rOut.exc = "RemoteError"

\* ---------------------------------------------------------------------------
\* answers of more than one row

\* C19: when the joined query returns more than one row only the first row
\* is used: the verdict of the Quality Gate is the verdict on the first row
\* alone, so a later row with poor attributes or without a sampled spectrum
\* cannot cause the rejection of a first row that passes.
C19_OnlyFirstRowJudged ==
    (GateCalled /\ Len(gRows) > 1) =>
        /\ gOut = check_quality(<<gRows[1]>>)
        /\ check_quality(<<gRows[1]>>) = NoExc => gOut = NoExc

\* ---------------------------------------------------------------------------
\* terminal states

\* request i has returned its success body
Done(i) ==
    /\ Returned(i)
    /\ inv[i].raised = "none"
    /\ inv[i].response.status = 200
    /\ inv[i].response.prediction = inv[i].prediction
    /\ inv[i].prediction # <<>>

\* request i has returned {error, detail} for the exception it caught
Failed(i) ==
    /\ Returned(i)
    /\ inv[i].raised # "none"
    /\ inv[i].response = ErrorResponse([exc |-> inv[i].raised,
                                        msg |-> inv[i].response.detail])
    /\ inv[i].response.status \in {400, 500}
    /\ inv[i].response.error # "none"
    /\ inv[i].response.detail # <<>>
    /\ inv[i].response.prediction = <<>>

\* the next stage of request i can raise
CanFail(i) == ENABLED (Step(i) /\ inv'[i].raised # "none")

\* what holds of the terminal states in every state: a returned request is
\* Done or Failed and not both, an exception is always answered (none
\* escapes the handler), and a request that caught one never answers 200
TerminalStates ==
    \A i \in Invs :
        /\ Returned(i) => (Done(i) /\ ~Failed(i)) \/ (Failed(i) /\ ~Done(i))
        /\ inv[i].raised # "none" => Failed(i)
        /\ inv[i].response.status = 200 => Done(i)
        /\ ~Returned(i) => inv[i].response = NoResponse

\* a returned request takes no further step
TerminalIsFinal ==
    \A i \in Invs : Returned(i) => inv'[i] = inv[i]

\* C20 as stated: provided each external call returns or raises, every
\* request eventually reaches exactly one terminal state, Done with the
\* prediction or Failed with {error, detail}; Failed is reachable from
\* every non-terminal state; no exception escapes the handler and a
\* failure is never turned into a success response.
C20_FailedFromEveryState ==
    /\ \A i \in Invs : <>Returned(i)
    /\ []TerminalStates
    /\ [][TerminalIsFinal]_vars
    /\ [](\A i \in Invs : ~Returned(i) => CanFail(i))

\* C20, corrected: as above, but Failed is reachable only up to the model
\* evaluation: the next stage of a request that has not yet got its
\* prediction can raise, while a request whose inference has returned can
\* only go on to Done: _clean_temp logs and swallows a failing rmtree (the
\* directory may already be gone) and the success body is returned.
C20_TerminalStates ==
    /\ \A i \in Invs : <>Returned(i)
    /\ []TerminalStates
    /\ [][TerminalIsFinal]_vars
    /\ [](\A i \in Invs : inv[i].pc \in {"start", "resolved", "fetched", "read"}
                            => CanFail(i))
    /\ [](\A i \in Invs : inv[i].pc = "inferred" => ~CanFail(i) /\ ENABLED Step(i))
    /\ [][\A i \in Invs : (inv[i].pc = "inferred" /\ inv'[i].pc # "inferred")
                            => inv'[i].response.status = 200]_vars

\* two requests have finished, one Done, one Failed on an exception that no
\* except clause names
C20_Witness ==
    \E i, j \in Invs :
        /\ Done(i) /\ inv[i].cleaned = 1
        /\ Failed(j) /\ inv[j].response.error = "UnexpectedError"

\* ---------------------------------------------------------------------------
\* requests served one after another

\* request i has read a staged file
HasRead(i) == inv[i].X # NoData

\* C21: when requests run one after another, earlier ones possibly having
\* failed, the file a request reads and passes to inference was written by
\* that request's own pull_data for its own resolved source; a file an
\* earlier request left in the staging directory is never the one read.
C21_ReadsOwnFile ==
    \A i \in Invs :
        HasRead(i) =>
            /\ inv[i].X.writer = i
            /\ inv[i].X.src = inv[i].results[1].source_id

\* C22: whenever pull_data returns a staging directory without raising, the
\* directory holds at least one '*.csv' file written by that call for the
\* requested source, so the handler's csv_files[0] cannot fail: an answer of
\* the data service with no 'XP_SAMPLED' key, or whose derived file name
\* does not end in '.csv', ends as DataDownloadError, never as the
\* handler's unclassified error.
C22_FetchedDirHasOwnCsv ==
    \A i \in Invs :
        /\ inv[i].pc = "fetched" =>
                \E f \in glob(fsDirs, fsFiles, inv[i].data_dir) :
                    /\ f.writer = i
                    /\ f.src = inv[i].results[1].source_id
        /\ inv[i].raised # "IndexError"
        /\ (Ran(i, "read") /\ ~HasRead(i) /\ inv[i].raised # "ParserError")
                => inv[i].raised = "DataDownloadError"

============================================================================
